---- MODULE Spec2Model ----
(***************************************************************************)
(* Sequential download queue (queue_manager.py), the retrying download    *)
(* engine (downloader.py) and the application glue that drives both        *)
(* (main.py) of youtube-ninja.                                             *)
(*                                                                         *)
(* Three specifications share the variables below:                         *)
(*   Spec        the DownloadQueue object under arbitrary API calls        *)
(*   EngineSpec  one download_video call of YouTubeDownloader, with a      *)
(*               concurrent cancel_download                                *)
(*   AppSpec     YouTubeDownloaderApp: the main (GUI) thread's handlers,   *)
(*               the DownloadWorker threads and the shared downloader      *)
(***************************************************************************)
EXTENDS Naturals, Sequences, FiniteSets, TLC

\* ---------------------------------------------------------------- bounds
MaxAdds == 3        \* DownloadQueue.add calls explored by Spec
MaxVacates == 4     \* complete_current / cancel_current calls explored by Spec
MaxItems == 2       \* URLs detected (and DownloadWorker threads created) in AppSpec
MaxTicks == 1       \* progress ticks delivered inside one attempt
MaxBytes == 4
MaxHooks == 3
MaxParts == 3       \* runs of one character a title of SanitizeSpec is made of

\* ------------------------------------------------------- program constants
HIGH_RES_THRESHOLD == 1440
MAX_RETRIES == 3
RETRY_DELAYS == <<2, 5, 10>>

Urls == {"a", "b"}

VARIABLES
    \* DownloadQueue fields
    queue,                   \* self._queue (deque), head first
    current,                 \* self._current: <<>> is None, <<item>> otherwise
    is_downloading,          \* self._is_downloading
    on_next_callback,        \* self._on_next_callback is set
    on_queue_empty_callback, \* self._on_queue_empty_callback is set
    \* observation of the queue's callers and callbacks
    added,                   \* items passed to add, in call order
    dispatched,              \* items passed to on_next, in call order
    lastOp,                  \* the last queue operation, its argument and result
    cbLog,                   \* callbacks fired by the last operation, each with
                             \* the queue fields as they were at the call
    nextsSinceVacate,        \* on_next calls since the last complete/cancel call
    nVacates,                \* complete_current / cancel_current calls so far
    pruned,                  \* remove or clear has been called
    dropped,                 \* a notification found no callback registered
    nEmpty,                  \* on_queue_empty calls so far
    removedIds,              \* ids of the items remove has deleted
    clearedIds,              \* ids of the items clear has deleted
    vacatedIds,              \* ids of the items that were current at a
                             \* complete_current / cancel_current call
    onlyStub,                \* every queue operation so far was an add whose
                             \* on_next handler completed the item at once
    \* YouTubeDownloader field shared by every thread
    cancel_requested,        \* self._cancel_requested
    \* one record per thread running engine code
    th,
    \* YouTubeDownloaderApp (main thread)
    download_worker,         \* self.download_worker: 0 is None, else the worker id
    window,                  \* self.current_window: "none", "active", "completed", "closed"
    mainpc,                  \* "idle" (in the event loop) or "cancel_wait"
    signals                  \* queued download_complete emissions, oldest first

qvars == <<queue, current, is_downloading, on_next_callback, on_queue_empty_callback>>
hvars == <<added, dispatched, lastOp, cbLog, nextsSinceVacate, nVacates, pruned, dropped,
           nEmpty, removedIds, clearedIds, vacatedIds, onlyStub>>
evars == <<cancel_requested, th>>
avars == <<download_worker, window, mainpc, signals>>
vars == <<qvars, hvars, evars, avars>>

\* ------------------------------------------------------------ QueueItem
\* QueueItem(url, video_info, download_video=True, download_audio=True, ...);
\* id stands for the object's identity.
QueueItem(i, u, dv, da) ==
    [id |-> i, url |-> u, download_video |-> dv, download_audio |-> da]

\* ------------------------------------------------------- DownloadQueue
\* The fields of the queue object as one value.
QState ==
    [queue |-> queue, current |-> current, is_downloading |-> is_downloading]

\* A callback invocation, with the fields as the callee sees them.
Callback(kind, item, q) ==
    [kind |-> kind, item |-> item,
     is_downloading |-> q.is_downloading, current |-> q.current,
     queue |-> q.queue]

process_next_Stall(q) ==
    IF q.queue # <<>>
    THEN [q |-> q, cb |-> <<>>]
    ELSE LET q1 == [q EXCEPT !.current = <<>>, !.is_downloading = FALSE]
         IN [q |-> q1,
             cb |-> IF on_queue_empty_callback
                    THEN <<Callback("on_queue_empty", <<>>, q1)>> ELSE <<>>]

process_next_NoPop(q) ==
    IF q.queue # <<>>
    THEN LET q1 == [q EXCEPT !.current = <<Head(q.queue)>>, !.is_downloading = TRUE]
         IN [q |-> q1,
             cb |-> IF on_next_callback
                    THEN <<Callback("on_next", q1.current, q1)>> ELSE <<>>]
    ELSE LET q1 == [q EXCEPT !.current = <<>>, !.is_downloading = FALSE]
         IN [q |-> q1,
             cb |-> IF on_queue_empty_callback
                    THEN <<Callback("on_queue_empty", <<>>, q1)>> ELSE <<>>]

process_next_NoFlag(q) ==
    IF q.queue # <<>>
    THEN LET q1 == [q EXCEPT !.current = <<Head(q.queue)>>, !.queue = Tail(q.queue)]
         IN [q |-> q1,
             cb |-> IF on_next_callback
                    THEN <<Callback("on_next", q1.current, q1)>> ELSE <<>>]
    ELSE LET q1 == [q EXCEPT !.current = <<>>, !.is_downloading = FALSE]
         IN [q |-> q1,
             cb |-> IF on_queue_empty_callback
                    THEN <<Callback("on_queue_empty", <<>>, q1)>> ELSE <<>>]

process_next_Lifo(q) ==
    IF q.queue # <<>>
    THEN LET n == Len(q.queue)
             q1 == [q EXCEPT !.current = <<q.queue[n]>>,
                             !.queue = SubSeq(q.queue, 1, n - 1),
                             !.is_downloading = TRUE]
         IN [q |-> q1,
             cb |-> IF on_next_callback
                    THEN <<Callback("on_next", q1.current, q1)>> ELSE <<>>]
    ELSE LET q1 == [q EXCEPT !.current = <<>>, !.is_downloading = FALSE]
         IN [q |-> q1,
             cb |-> IF on_queue_empty_callback
                    THEN <<Callback("on_queue_empty", <<>>, q1)>> ELSE <<>>]

\* _process_next: pop the head into current and call on_next, or go idle and
\* call on_queue_empty.
process_next(q) ==
    IF q.queue # <<>>
    THEN LET q1 == [q EXCEPT !.current = <<Head(q.queue)>>,
                             !.queue = Tail(q.queue),
                             !.is_downloading = TRUE]
         IN [q |-> q1,
             cb |-> IF on_next_callback
                    THEN <<Callback("on_next", q1.current, q1)>> ELSE <<>>]
    ELSE LET q1 == [q EXCEPT !.current = <<>>, !.is_downloading = FALSE]
         IN [q |-> q1,
             cb |-> IF on_queue_empty_callback
                    THEN <<Callback("on_queue_empty", <<>>, q1)>> ELSE <<>>]

add_NoStart(q, item) ==
    LET q1 == [q EXCEPT !.queue = Append(q.queue, item)]
    IN [q |-> q1, cb |-> <<>>, ret |-> Len(q1.queue) - 1]

add_Always(q, item) ==
    LET q1 == [q EXCEPT !.queue = Append(q.queue, item)]
        position == Len(q1.queue) - 1
        r == process_next(q1)
    IN [q |-> r.q, cb |-> r.cb, ret |-> position]

\* add: append, then start processing when nothing is downloading.
add(q, item) ==
    LET q1 == [q EXCEPT !.queue = Append(q.queue, item)]
        position == Len(q1.queue) - 1
    IN IF ~q1.is_downloading
       THEN LET r == process_next(q1) IN [q |-> r.q, cb |-> r.cb, ret |-> position]
       ELSE [q |-> q1, cb |-> <<>>, ret |-> position]

complete_current_NoAdvance(q) ==
    [q |-> [q EXCEPT !.is_downloading = FALSE, !.current = <<>>], cb |-> <<>>]

\* complete_current
complete_current(q) ==
    process_next([q EXCEPT !.is_downloading = FALSE, !.current = <<>>])

cancel_current_NoAdvance(q) ==
    [q |-> [q EXCEPT !.is_downloading = FALSE, !.current = <<>>], cb |-> <<>>]

\* cancel_current
cancel_current(q) ==
    process_next([q EXCEPT !.is_downloading = FALSE, !.current = <<>>])

clear_All(q) == [q EXCEPT !.queue = <<>>, !.current = <<>>]

\* clear
clear(q) == [q EXCEPT !.queue = <<>>]

\* The items of s whose url is not u, in order.
RECURSIVE WithoutUrl(_, _)
WithoutUrl(s, u) ==
    IF s = <<>> THEN <<>>
    ELSE IF Head(s).url = u THEN WithoutUrl(Tail(s), u)
         ELSE <<Head(s)>> \o WithoutUrl(Tail(s), u)

remove_FirstOnly(q, u) ==
    LET hits == {i \in DOMAIN q.queue : q.queue[i].url = u}
        first == CHOOSE i \in hits : \A j \in hits : i <= j
        q1 == IF hits = {} THEN q
              ELSE [q EXCEPT !.queue = SubSeq(q.queue, 1, first - 1)
                                        \o SubSeq(q.queue, first + 1, Len(q.queue))]
    IN [q |-> q1, ret |-> hits # {}]

remove_InclCurrent(q, u) ==
    LET original_len == Len(q.queue)
        q1 == [q EXCEPT !.queue = WithoutUrl(q.queue, u)]
    IN [q |-> q1,
        ret |-> \/ Len(q1.queue) < original_len
                \/ (q.current # <<>> /\ q.current[1].url = u)]

\* remove
remove(q, u) ==
    LET original_len == Len(q.queue)
        q1 == [q EXCEPT !.queue = WithoutUrl(q.queue, u)]
    IN [q |-> q1, ret |-> Len(q1.queue) < original_len]

\* pending_count
pending_count(q) == Len(q.queue)

total_count_NoCurrent(q) == Len(q.queue)

\* total_count
total_count(q) == Len(q.queue) + (IF q.current # <<>> THEN 1 ELSE 0)

\* get_pending: a list copy of the deque
get_pending(q) == [i \in 1..Len(q.queue) |-> q.queue[i]]

is_in_queue_PendingOnly(q, u) ==
    \E i \in DOMAIN q.queue : q.queue[i].url = u

\* is_in_queue
is_in_queue(q, u) ==
    IF q.current # <<>> /\ q.current[1].url = u
    THEN TRUE
    ELSE \E i \in DOMAIN q.queue : q.queue[i].url = u

\* ------------------------------------------------ queue: state updates
\* The queue fields take the values of q.
StoreQueue(q) ==
    /\ queue' = q.queue
    /\ current' = q.current
    /\ is_downloading' = q.is_downloading

\* The items of the on_next calls in a callback list.
RECURSIVE NextItems(_)
NextItems(cb) ==
    IF cb = <<>> THEN <<>>
    ELSE (IF Head(cb).kind = "on_next" THEN Head(cb).item ELSE <<>>)
         \o NextItems(Tail(cb))

\* The on_queue_empty calls in a callback list.
EmptyCalls(cb) == Len(SelectSeq(cb, LAMBDA c : c.kind = "on_queue_empty"))

\* An on_next handler that calls complete_current at once, each time on_next
\* is called: q and cb are the fields and the callbacks fired so far, fresh the
\* callbacks fired by the last call, n the complete_current calls made so far.
RECURSIVE CompleteAtOnce(_, _, _, _)
CompleteAtOnce(q, cb, fresh, n) ==
    IF NextItems(fresh) # <<>>
    THEN LET c == complete_current(q)
         IN CompleteAtOnce(c.q, cb \o c.cb, c.cb, n + 1)
    ELSE [q |-> q, cb |-> cb, n |-> n]

\* Bookkeeping common to every queue operation.
Observe(op, arg, ret, cb, vacate) ==
    /\ lastOp' = [op |-> op, arg |-> arg, ret |-> ret]
    /\ cbLog' = cb
    /\ dispatched' = dispatched \o NextItems(cb)
    /\ nextsSinceVacate' = (IF vacate THEN 0 ELSE nextsSinceVacate) + Len(NextItems(cb))
    /\ nVacates' = nVacates + (IF vacate THEN 1 ELSE 0)
    /\ vacatedIds' = vacatedIds \cup
          (IF vacate /\ current # <<>> THEN {current[1].id} ELSE {})
    /\ dropped' = (dropped \/ (cb = <<>> /\ (vacate \/ (op = "add" /\ ~is_downloading))))
    /\ nEmpty' = nEmpty + EmptyCalls(cb)

NoOp == [op |-> "none", arg |-> "", ret |-> 0]

InitQueue ==
    /\ queue = <<>>
    /\ current = <<>>
    /\ is_downloading = FALSE
    /\ on_next_callback = FALSE
    /\ on_queue_empty_callback = FALSE
    /\ added = <<>>
    /\ dispatched = <<>>
    /\ lastOp = NoOp
    /\ cbLog = <<>>
    /\ nextsSinceVacate = 0
    /\ nVacates = 0
    /\ pruned = FALSE
    /\ dropped = FALSE
    /\ nEmpty = 0
    /\ removedIds = {}
    /\ clearedIds = {}
    /\ vacatedIds = {}
    /\ onlyStub = TRUE

\* Placeholder values of the engine and application variables for Spec.
IdleEngine ==
    /\ cancel_requested = FALSE
    /\ th = <<>>

IdleApp ==
    /\ download_worker = 0
    /\ window = "none"
    /\ mainpc = "idle"
    /\ signals = <<>>

\* ------------------------------------------------ Spec: the queue's API
SetCallbacks(n, e) ==
    /\ on_next_callback' = n
    /\ on_queue_empty_callback' = e
    /\ <<on_next_callback', on_queue_empty_callback'>>
         # <<on_next_callback, on_queue_empty_callback>>
    /\ UNCHANGED <<queue, current, is_downloading, hvars, evars, avars>>

\* add(item) with an on_next handler that completes the item at once.
AddCompleting(u) ==
    /\ Len(added) < MaxAdds
    /\ on_next_callback
    /\ LET item == QueueItem(Len(added) + 1, u, TRUE, TRUE)
           a == add(QState, item)
           r == CompleteAtOnce(a.q, a.cb, a.cb, 0)
       IN /\ nVacates + r.n <= MaxVacates
          /\ StoreQueue(r.q)
          /\ added' = Append(added, item)
          /\ lastOp' = [op |-> "add_completing", arg |-> u, ret |-> a.ret]
          /\ cbLog' = r.cb
          /\ dispatched' = dispatched \o NextItems(r.cb)
          /\ nextsSinceVacate' = IF r.n > 0 THEN 0 ELSE nextsSinceVacate
          /\ nVacates' = nVacates + r.n
          /\ dropped' = (dropped \/ (r.n > 0 /\ EmptyCalls(r.cb) = 0))
          /\ nEmpty' = nEmpty + EmptyCalls(r.cb)
          /\ vacatedIds' = vacatedIds \cup
                {NextItems(r.cb)[k].id : k \in DOMAIN NextItems(r.cb)}
    /\ UNCHANGED <<on_next_callback, on_queue_empty_callback, pruned, removedIds,
                   clearedIds, onlyStub, evars, avars>>

Add(u) ==
    /\ Len(added) < MaxAdds
    /\ LET item == QueueItem(Len(added) + 1, u, TRUE, TRUE)
           r == add(QState, item)
       IN /\ StoreQueue(r.q)
          /\ added' = Append(added, item)
          /\ Observe("add", u, r.ret, r.cb, FALSE)
    /\ onlyStub' = FALSE
    /\ UNCHANGED <<on_next_callback, on_queue_empty_callback, pruned, removedIds, clearedIds, evars, avars>>

CompleteCurrent ==
    /\ nVacates < MaxVacates
    /\ LET r == complete_current(QState)
       IN /\ StoreQueue(r.q)
          /\ Observe("complete_current", "", 0, r.cb, TRUE)
    /\ onlyStub' = FALSE
    /\ UNCHANGED <<on_next_callback, on_queue_empty_callback, added, pruned, removedIds, clearedIds, evars, avars>>

CancelCurrent ==
    /\ nVacates < MaxVacates
    /\ LET r == cancel_current(QState)
       IN /\ StoreQueue(r.q)
          /\ Observe("cancel_current", "", 0, r.cb, TRUE)
    /\ onlyStub' = FALSE
    /\ UNCHANGED <<on_next_callback, on_queue_empty_callback, added, pruned, removedIds, clearedIds, evars, avars>>

Clear ==
    /\ StoreQueue(clear(QState))
    /\ Observe("clear", "", 0, <<>>, FALSE)
    /\ pruned' = TRUE
    /\ onlyStub' = FALSE
    /\ clearedIds' = clearedIds \cup {queue[i].id : i \in DOMAIN queue}
    /\ UNCHANGED <<on_next_callback, on_queue_empty_callback, added, removedIds, evars, avars>>

Remove(u) ==
    /\ LET r == remove(QState, u)
       IN /\ StoreQueue(r.q)
          /\ Observe("remove", u, IF r.ret THEN 1 ELSE 0, <<>>, FALSE)
          /\ removedIds' = removedIds \cup
                 ({queue[i].id : i \in DOMAIN queue}
                    \ {r.q.queue[i].id : i \in DOMAIN r.q.queue})
    /\ pruned' = TRUE
    /\ onlyStub' = FALSE
    /\ UNCHANGED <<on_next_callback, on_queue_empty_callback, added, clearedIds, evars, avars>>

\* ------------------------------------------------- YouTubeDownloader
Streams == {"audio", "video"}

\* What one call of a sub-download operation (download_func) gives back to
\* _retry_download: a truthy result, a falsy result, an exception whose message
\* does not contain "cancelled", or an exception whose message does.
Outcomes == {"true", "false", "error", "error_cancelled"}

\* Stands for the argument of a progress_hook call that has not been made.
NoSignal ==
    [status |-> "none", downloaded_bytes |-> 0, total_bytes |-> 0,
     total_bytes_estimate |-> 0]

\* A thread about to call download_video(download_video=dv, download_audio=da,
\* video_info=<given iff hasInfo>).  The fields from stream on are the locals of
\* the call in progress; olog .. cancelReq observe it.
NewThread(dv, da, hasInfo) ==
    [pc |-> "start",
     download_video |-> dv, download_audio |-> da, has_info |-> hasInfo,
     results |-> [video |-> FALSE, audio |-> FALSE],
     stream |-> "none",       \* which sub-download the retry run is for
     attempt |-> 0,           \* loop variable of _retry_download
     ret |-> FALSE,           \* value returned by _retry_download
     ticks |-> 0,             \* progress ticks delivered in this attempt
     olog |-> <<>>,           \* outcomes of the attempts of this retry run
     slept |-> <<>>,          \* delays slept in this retry run
     runCancel |-> FALSE,     \* the flag was set at some time in this retry run
     callsAtCancel |-> 0,     \* attempts begun when it was first set
     infoCalls |-> 0,         \* get_video_info calls
     cancelReq |-> FALSE,     \* a cancel request was made for this item
     has_title |-> TRUE,      \* the metadata given by the caller has a str 'title'
     info |-> "none",         \* metadata of the call: "given", "fetched", "failed"
     attempted |-> {},        \* streams whose operation this call has invoked
     returned |-> {},         \* streams whose retry run has returned in this call
     succeeded |-> {},        \* streams with an attempt that returned a truthy value
     cancelAt |-> "none",     \* where the call was at its first cancel request
     title |-> <<"a">>,       \* info['title'], a sequence of characters
     safe_title |-> <<>>,     \* the local safe_title
     passed |-> [video |-> <<>>, audio |-> <<>>],
                              \* safe_title argument of each operation's last call
     events |-> <<>>,         \* progress_callback calls of the current attempt
     nFinished |-> 0,         \* 'finished' signals its progress_hook has handled
     config_error |-> FALSE,  \* an attempt of this retry run could not write
                              \* to its destination
     hookAt |-> 0,            \* events delivered before the attempt's last
                              \* progress_hook call (0: no call yet)
     hookSignal |-> NoSignal, \* the argument of that call
     hookFlag |-> FALSE,      \* the cancel flag as that call read it
     video_quality |-> 1080,  \* the video_quality argument, as int() reads it
     format_str |-> <<>>,     \* format_str of the video attempt in progress
     sawCancel |-> FALSE]     \* cancel_download was called while this call of
                              \* download_video was running

InCall(r) == r.pc \notin {"start", "return", "raised", "finished"}
InRetry(r) == r.pc \in {"retry_check", "op", "sleep", "retry_ret"}

\* ------------------------------------------------- _sanitize_filename
\* invalid_chars = '<>:"/\\|?*'
invalid_chars == <<"<", ">", ":", "\"", "/", "\\", "|", "?", "*">>

\* The characters str.strip() removes, as far as the titles here use them.
Whitespace == {" ", "\t", "\n"}

\* filename.replace(char, '')
Replace(filename, char) == SelectSeq(filename, LAMBDA c : c # char)

\* for char in invalid_chars: filename = filename.replace(char, ''), from the
\* k-th character of invalid_chars on.
RECURSIVE ReplaceFrom(_, _)
ReplaceFrom(filename, k) ==
    IF k > Len(invalid_chars) THEN filename
    ELSE ReplaceFrom(Replace(filename, invalid_chars[k]), k + 1)

\* filename[:n]
Slice(filename, n) ==
    SubSeq(filename, 1, IF Len(filename) < n THEN Len(filename) ELSE n)

\* f without its leading whitespace.
LStrip(f) ==
    LET lead == Cardinality({k \in 1..Len(f) : \A i \in 1..k : f[i] \in Whitespace})
    IN SubSeq(f, lead + 1, Len(f))

\* f without its trailing whitespace.
RStrip(f) ==
    LET trail == Cardinality({k \in 1..Len(f) :
                                \A i \in (Len(f) - k + 1)..Len(f) : f[i] \in Whitespace})
    IN SubSeq(f, 1, Len(f) - trail)

\* str.strip()
Strip(f) == RStrip(LStrip(f))

sanitize_filename_CutFirst(filename) ==
    Strip(ReplaceFrom(Slice(filename, 200), 1))

sanitize_filename_NoCut(filename) ==
    Strip(ReplaceFrom(filename, 1))

\* _sanitize_filename
sanitize_filename(filename) ==
    Strip(Slice(ReplaceFrom(filename, 1), 200))

\* download_video, line 177: info['title'] and _sanitize_filename.  Metadata
\* from get_video_info always carries a str title (lines 122-129); metadata
\* given by the caller is used as it is, and without a str title the
\* subscript or str.replace raises out of download_video.
dv_sanitize(r) ==
    IF r.has_info /\ ~r.has_title
    THEN [r EXCEPT !.pc = "raised"]
    ELSE [r EXCEPT !.pc = "audio_gate", !.safe_title = sanitize_filename(r.title)]

\* download_video, lines 169-177: clear the flag, then use the given metadata
\* or call get_video_info.
dv_enter(r) ==
    LET r1 == [r EXCEPT !.results = [video |-> FALSE, audio |-> FALSE]]
    IN IF r.has_info
       THEN dv_sanitize([r1 EXCEPT !.info = "given"])
       ELSE [r1 EXCEPT !.pc = "info"]

dv_info_Proceed(r, ok) ==
    dv_sanitize([r EXCEPT !.infoCalls = @ + 1,
                          !.info = IF ok THEN "fetched" ELSE "failed"])

\* get_video_info returned metadata (ok) or None; lines 174-177.
dv_info(r, ok) ==
    IF ok
    THEN dv_sanitize([r EXCEPT !.infoCalls = @ + 1, !.info = "fetched"])
    ELSE [r EXCEPT !.infoCalls = @ + 1, !.info = "failed", !.pc = "return"]

\* Entry of _retry_download for stream s.
retry_enter(r, s) ==
    [r EXCEPT !.pc = "retry_check", !.stream = s, !.attempt = 0, !.ret = FALSE,
              !.ticks = 0, !.olog = <<>>, !.slept = <<>>,
              !.runCancel = FALSE, !.callsAtCancel = 0,
              !.events = <<>>, !.nFinished = 0, !.config_error = FALSE,
              !.hookAt = 0, !.hookSignal = NoSignal, !.hookFlag = FALSE, !.format_str = <<>>]

\* download_video, line 180.
dv_audio_gate(r, flag) ==
    IF r.download_audio /\ ~flag THEN retry_enter(r, "audio")
    ELSE [r EXCEPT !.pc = "video_gate"]

dv_video_gate_NeedsAudio(r, flag) ==
    IF r.download_video /\ ~flag /\ (~r.download_audio \/ r.results.audio)
    THEN retry_enter(r, "video")
    ELSE [r EXCEPT !.pc = "return"]

\* download_video, line 187.
dv_video_gate(r, flag) ==
    IF r.download_video /\ ~flag THEN retry_enter(r, "video")
    ELSE [r EXCEPT !.pc = "return"]

retry_check_NoCancelCheck(r, flag) ==
    IF r.attempt >= MAX_RETRIES
    THEN [r EXCEPT !.pc = "retry_ret", !.ret = FALSE]
    ELSE [r EXCEPT !.pc = "op", !.ticks = 0, !.attempted = @ \cup {r.stream},
                   !.passed = [@ EXCEPT ![r.stream] = r.safe_title],
                   !.events = <<>>, !.nFinished = 0,
                   !.hookAt = 0, !.hookSignal = NoSignal, !.hookFlag = FALSE, !.format_str = <<>>]

\* _retry_download, lines 64-69 and 83-85: the loop head.  The loop ends with
\* False after MAX_RETRIES rounds; a round returns False when the flag is set
\* and otherwise invokes the operation.
retry_check(r, flag) ==
    IF r.attempt >= MAX_RETRIES
    THEN [r EXCEPT !.pc = "retry_ret", !.ret = FALSE]
    ELSE IF flag
         THEN [r EXCEPT !.pc = "retry_ret", !.ret = FALSE]
         ELSE [r EXCEPT !.pc = "op", !.ticks = 0, !.attempted = @ \cup {r.stream},
                   !.passed = [@ EXCEPT ![r.stream] = r.safe_title],
                   !.events = <<>>, !.nFinished = 0,
                   !.hookAt = 0, !.hookSignal = NoSignal, !.hookFlag = FALSE, !.format_str = <<>>]

\* _retry_download, lines 69-81: what the loop body does with the operation's
\* outcome o.
end_attempt(r, o) ==
    LET r1 == [r EXCEPT !.olog = Append(@, o)]
    IN CASE o = "true" -> [r1 EXCEPT !.pc = "retry_ret", !.ret = TRUE,
                                     !.succeeded = @ \cup {r.stream}]
         [] o = "false" -> [r1 EXCEPT !.pc = "retry_check", !.attempt = @ + 1]
         [] o = "error_cancelled" -> [r1 EXCEPT !.pc = "retry_ret", !.ret = FALSE]
         [] o = "error" ->
              IF r.attempt < MAX_RETRIES - 1
              THEN [r1 EXCEPT !.pc = "sleep",
                              !.slept = Append(@, RETRY_DELAYS[r.attempt + 1])]
              ELSE [r1 EXCEPT !.pc = "retry_check", !.attempt = @ + 1]

\* time.sleep(delay) returned: next round of the loop.
sleep_end(r) ==
    [r EXCEPT !.pc = "retry_check", !.attempt = @ + 1]

\* download_video, lines 181 and 188: store the run's result under its stream.
retry_return(r) ==
    [r EXCEPT !.results = [@ EXCEPT ![r.stream] = r.ret],
              !.pc = IF r.stream = "audio" THEN "video_gate" ELSE "return",
              !.returned = @ \cup {r.stream},
              !.attempt = 0, !.ret = FALSE, !.ticks = 0, !.olog = <<>>,
              !.slept = <<>>, !.runCancel = FALSE, !.callsAtCancel = 0,
              !.events = <<>>, !.nFinished = 0, !.config_error = FALSE,
              !.hookAt = 0, !.hookSignal = NoSignal, !.hookFlag = FALSE, !.format_str = <<>>]

\* Where in download_video the call of record r is: inside the retry run of a
\* stream, or outside both.
Phase(r) == IF InRetry(r) THEN r.stream ELSE "outside"

\* cancel_download, as seen by the observation fields of every thread.
NoteCancel(r) ==
    LET r1 == [r EXCEPT !.cancelAt = IF @ = "none" THEN Phase(r) ELSE @]
    IN IF InRetry(r) /\ r.pc # "retry_ret" /\ ~r.runCancel
       THEN [r1 EXCEPT !.runCancel = TRUE, !.callsAtCancel = Len(r.olog) +
                          (IF r.pc = "op" THEN 1 ELSE 0)]
       ELSE r1

\* cancel_download, as seen by a thread that is inside download_video.
SeeCancel(r) == IF InCall(r) THEN [r EXCEPT !.sawCancel = TRUE] ELSE r

\* ------------------------------------------------ engine: thread steps
SetThread(t, r) == th' = [th EXCEPT ![t] = r]

Enter_KeepFlag(t) ==
    /\ t \in DOMAIN th
    /\ th[t].pc = "start"
    /\ SetThread(t, dv_enter(th[t]))
    /\ UNCHANGED <<cancel_requested, qvars, hvars, avars>>

Enter(t) ==
    /\ t \in DOMAIN th
    /\ th[t].pc = "start"
    /\ cancel_requested' = FALSE
    /\ SetThread(t, dv_enter(th[t]))
    /\ UNCHANGED <<qvars, hvars, avars>>

InfoReturn(t, ok) ==
    /\ t \in DOMAIN th
    /\ th[t].pc = "info"
    /\ SetThread(t, dv_info(th[t], ok))
    /\ UNCHANGED <<cancel_requested, qvars, hvars, avars>>

AudioGate(t) ==
    /\ t \in DOMAIN th
    /\ th[t].pc = "audio_gate"
    /\ SetThread(t, dv_audio_gate(th[t], cancel_requested))
    /\ UNCHANGED <<cancel_requested, qvars, hvars, avars>>

VideoGate(t) ==
    /\ t \in DOMAIN th
    /\ th[t].pc = "video_gate"
    /\ SetThread(t, dv_video_gate(th[t], cancel_requested))
    /\ UNCHANGED <<cancel_requested, qvars, hvars, avars>>

RetryCheck(t) ==
    /\ t \in DOMAIN th
    /\ th[t].pc = "retry_check"
    /\ SetThread(t, retry_check(th[t], cancel_requested))
    /\ UNCHANGED <<cancel_requested, qvars, hvars, avars>>

\* progress_hook runs inside the transfer: with the flag set it raises
\* "Download cancelled", which the operation catches (lines 314-322, 389-397)
\* and turns into a False result, unless the progress sink itself raises while
\* the cancellation is reported (o is then that exception).
OpTick(t, o) ==
    /\ t \in DOMAIN th
    /\ th[t].pc = "op"
    /\ IF cancel_requested
       THEN SetThread(t, end_attempt(th[t], o))
       ELSE /\ o = "false"
            /\ th[t].ticks < MaxTicks
            /\ SetThread(t, [th[t] EXCEPT !.ticks = @ + 1])
    /\ UNCHANGED <<cancel_requested, qvars, hvars, avars>>

\* The operation ends by itself with outcome o.
OpEnd(t, o) ==
    /\ t \in DOMAIN th
    /\ th[t].pc = "op"
    /\ SetThread(t, end_attempt(th[t], o))
    /\ UNCHANGED <<cancel_requested, qvars, hvars, avars>>

SleepEnd(t) ==
    /\ t \in DOMAIN th
    /\ th[t].pc = "sleep"
    /\ SetThread(t, sleep_end(th[t]))
    /\ UNCHANGED <<cancel_requested, qvars, hvars, avars>>

RetryReturn(t) ==
    /\ t \in DOMAIN th
    /\ th[t].pc = "retry_ret"
    /\ SetThread(t, retry_return(th[t]))
    /\ UNCHANGED <<cancel_requested, qvars, hvars, avars>>

\* cancel_download called from another thread.
CancelDownload ==
    /\ cancel_requested' = TRUE
    /\ th' = [t \in DOMAIN th |->
                IF InCall(th[t]) \/ th[t].pc = "start"
                THEN SeeCancel([NoteCancel(th[t]) EXCEPT !.cancelReq = TRUE])
                ELSE th[t]]
    /\ UNCHANGED <<qvars, hvars, avars>>

\* A direct download_video call: any options, with or without metadata, and
\* the flag as an earlier call may have left it.
InitEngine ==
    /\ cancel_requested \in BOOLEAN
    /\ \E dv, da, hi, ht \in BOOLEAN :
          /\ (~hi => ht)
          /\ th = <<[NewThread(dv, da, hi) EXCEPT !.has_title = ht]>>

\* Outcomes a cancelled tick can give: the operation's False, or what the
\* progress sink raises.
TickOutcomes == {"false", "error", "error_cancelled"}

EngineInit == InitQueue /\ InitEngine /\ IdleApp

EngineNext ==
    \/ Enter(1)
    \/ \E ok \in BOOLEAN : InfoReturn(1, ok)
    \/ AudioGate(1)
    \/ VideoGate(1)
    \/ RetryCheck(1)
    \/ \E o \in TickOutcomes : OpTick(1, o)
    \/ \E o \in Outcomes : OpEnd(1, o)
    \/ SleepEnd(1)
    \/ RetryReturn(1)
    \/ CancelDownload

EngineSpec == EngineInit /\ [][EngineNext]_vars

\* ------------------------------- SanitizeSpec: download_video over titles
\* n times the character c.
Rep(c, n) == [i \in 1..n |-> c]

\* Runs of an ordinary character, of whitespace and of an invalid character,
\* short ones and ones about as long as the 200 characters kept.
Parts == {Rep(c, n) : c \in {"a", " ", ":"}, n \in {1, 199, 201}}

\* Titles made of at most k runs.
RECURSIVE TitlesUpTo(_)
TitlesUpTo(k) ==
    IF k = 0 THEN {<<>>}
    ELSE LET shorter == TitlesUpTo(k - 1)
         IN shorter \cup {t \o p : t \in shorter, p \in Parts}

\* The title My: Video/Clip*?"<>|
ExampleTitle ==
    <<"M", "y", ":", " ", "V", "i", "d", "e", "o", "/", "C", "l", "i", "p",
      "*", "?", "\"", "<", ">", "|">>

\* A title of 250 ordinary characters.
LongTitle == Rep("a", 250)

Titles == TitlesUpTo(MaxParts) \cup {ExampleTitle, LongTitle}

\* download_video(download_video=True, download_audio=True) for a video with
\* any of the titles, given by the caller or fetched, with transfers that
\* succeed.
SanitizeInit ==
    /\ InitQueue
    /\ IdleApp
    /\ cancel_requested = FALSE
    /\ \E hi \in BOOLEAN, ti \in Titles :
          th = <<[NewThread(TRUE, TRUE, hi) EXCEPT !.title = ti]>>

SanitizeNext ==
    \/ Enter(1)
    \/ InfoReturn(1, TRUE)
    \/ AudioGate(1)
    \/ VideoGate(1)
    \/ RetryCheck(1)
    \/ OpEnd(1, "true")
    \/ RetryReturn(1)

SanitizeSpec == SanitizeInit /\ [][SanitizeNext]_vars

\* ------------------------- FormatSpec: format_str of _download_video_file
\* One alternative of a yt-dlp format string: bestvideo[height<=q][vcodec^=v]
\* +bestaudio[acodec^=a], where an empty v or a is no filter.
Pair(q, v, a) ==
    [video |-> "bestvideo", height |-> q, vcodec |-> v,
     audio |-> "bestaudio", acodec |-> a]

\* The alternative best[height<=q].
Best(q) ==
    [video |-> "best", height |-> q, vcodec |-> "", audio |-> "", acodec |-> ""]

format_str_Strict(video_quality) ==
    IF video_quality > HIGH_RES_THRESHOLD
    THEN <<Pair(video_quality, "av01", "opus"),
           Pair(video_quality, "av01", ""),
           Pair(video_quality, "vp9", "opus"),
           Pair(video_quality, "vp9", ""),
           Pair(video_quality, "hvc1", ""),
           Pair(video_quality, "hev1", ""),
           Pair(video_quality, "avc", ""),
           Pair(video_quality, "", ""),
           Best(video_quality)>>
    ELSE <<Pair(video_quality, "avc", "mp4a"),
           Pair(video_quality, "avc", ""),
           Pair(video_quality, "vp9", "opus"),
           Pair(video_quality, "vp9", ""),
           Pair(video_quality, "av01", ""),
           Pair(video_quality, "", ""),
           Best(video_quality)>>

\* Lines 256-290: the alternatives of format_str, in the order of the string
\* (yt-dlp tries them from left to right).
format_str(video_quality) ==
    IF video_quality >= HIGH_RES_THRESHOLD
    THEN <<Pair(video_quality, "av01", "opus"),
           Pair(video_quality, "av01", ""),
           Pair(video_quality, "vp9", "opus"),
           Pair(video_quality, "vp9", ""),
           Pair(video_quality, "hvc1", ""),
           Pair(video_quality, "hev1", ""),
           Pair(video_quality, "avc", ""),
           Pair(video_quality, "", ""),
           Best(video_quality)>>
    ELSE <<Pair(video_quality, "avc", "mp4a"),
           Pair(video_quality, "avc", ""),
           Pair(video_quality, "vp9", "opus"),
           Pair(video_quality, "vp9", ""),
           Pair(video_quality, "av01", ""),
           Pair(video_quality, "", ""),
           Best(video_quality)>>

\* The quality tiers of the tray menu and of download_video's docstring.
Qualities == {360, 480, 720, 1080, 1440, 2160, 4320}

\* _download_video_file up to ydl_opts: the format string of this attempt.
BuildFormat(t) ==
    /\ t \in DOMAIN th
    /\ th[t].pc = "op"
    /\ th[t].stream = "video"
    /\ th[t].format_str = <<>>
    /\ SetThread(t, [th[t] EXCEPT !.format_str = format_str(th[t].video_quality)])
    /\ UNCHANGED <<cancel_requested, qvars, hvars, avars>>

\* The transfer of an attempt; a video attempt has built its format string.
Transfer(t, o) ==
    /\ t \in DOMAIN th
    /\ th[t].stream = "video" => th[t].format_str # <<>>
    /\ OpEnd(t, o)

\* download_video with the title known, for every quality tier.
FormatInit ==
    /\ InitQueue
    /\ IdleApp
    /\ cancel_requested \in BOOLEAN
    /\ \E dv, da \in BOOLEAN, q \in Qualities :
          th = <<[NewThread(dv, da, TRUE) EXCEPT !.video_quality = q]>>

FormatNext ==
    \/ Enter(1)
    \/ AudioGate(1)
    \/ VideoGate(1)
    \/ RetryCheck(1)
    \/ BuildFormat(1)
    \/ \E o \in Outcomes : Transfer(1, o)
    \/ SleepEnd(1)
    \/ RetryReturn(1)
    \/ CancelDownload

FormatSpec == FormatInit /\ [][FormatNext]_vars

\* ---------------- ProgressSpec: _download_audio_file, _download_video_file
\* progress_callback(kind, percent, status) as the sink sees it; the kind is
\* the stream of the attempt.  The status texts are named by what they say:
\* "starting" (Baslatiliyor...), "downloading" (Indiriliyor ...), "complete"
\* (Tamamlandi!), "converting" (MP3'e donusturuluyor...), "cancelled" (Iptal
\* edildi) and "error" (Hata: ...).
Event(p, s) == [percent |-> p, status |-> s]

emit(r, p, s) == [r EXCEPT !.events = Append(@, Event(p, s))]

\* Byte counts the transfer reports; total 0 is an unknown total.
Bytes == 0..MaxBytes
Totals == {0, MaxBytes}

\* The dictionaries yt-dlp hands to a progress hook.
\* A count that is missing or None reads as 0 (d.get with default 0, and the
\* "or" of line 239).
RawSignals ==
    {[status |-> "finished", downloaded_bytes |-> 0, total_bytes |-> 0,
      total_bytes_estimate |-> 0],
     [status |-> "error", downloaded_bytes |-> 0, total_bytes |-> 0,
      total_bytes_estimate |-> 0]}
    \cup [status : {"downloading"}, downloaded_bytes : Bytes,
          total_bytes : Totals, total_bytes_estimate : Totals]

\* total = d.get('total_bytes') or d.get('total_bytes_estimate', 0), lines 239
\* and 341.
Total(d) ==
    IF d.total_bytes # 0 THEN d.total_bytes ELSE d.total_bytes_estimate

\* What an exception of the transfer is: one whose message contains
\* "cancelled", an ordinary (network) failure, or a destination that cannot
\* be written.
ErrorKinds == {"cancelled", "network", "config"}

\* The event a 'finished' signal gives: lines 248-250 and 349-351.
Terminal(stream) ==
    IF stream = "video" THEN Event(100, "complete") ELSE Event(95, "converting")

\* percent = (downloaded / total) * 100, lines 242 and 344; the byte counts
\* used make the quotient a whole number.
Percent(downloaded, total) == (downloaded * 100) \div total

progress_hook_NoGap(r, d) ==
    IF d.status = "downloading"
    THEN IF Total(d) > 0
         THEN emit(r, Percent(d.downloaded_bytes, Total(d)), "downloading")
         ELSE emit(r, 0, "downloading")
    ELSE IF d.status = "finished"
         THEN emit(r, Terminal(r.stream).percent, Terminal(r.stream).status)
         ELSE r

progress_hook_NoConvert(r, d) ==
    IF d.status = "downloading"
    THEN IF Total(d) > 0
         THEN emit(r, Percent(d.downloaded_bytes, Total(d)), "downloading")
         ELSE r
    ELSE IF d.status = "finished"
         THEN emit(r, 100, "complete")
         ELSE r

\* progress_hook with the flag unset, lines 226-250 and 340-351.
progress_hook(r, d) ==
    IF d.status = "downloading"
    THEN IF Total(d) > 0
         THEN emit(r, Percent(d.downloaded_bytes, Total(d)), "downloading")
         ELSE r
    ELSE IF d.status = "finished"
         THEN emit(r, Terminal(r.stream).percent, Terminal(r.stream).status)
         ELSE r

\* Lines 307-309 and 379-381: the first statement of the try block.
download_file_start(r) == emit(r, 0, "starting")

\* Lines 311-313 and 383-387: ydl.download returned.
download_file_return(r) ==
    IF r.stream = "audio" THEN emit(r, 100, "complete") ELSE r

\* Lines 314-322 and 389-397: an exception of kind k left the try block.
download_file_except(r, k) ==
    [emit(r, 0, IF k = "cancelled" THEN "cancelled" ELSE "error")
        EXCEPT !.config_error = @ \/ (k = "config")]

hook_call_EmitFirst(r, d, flag) ==
    IF flag
    THEN end_attempt(download_file_except(progress_hook(r, d), "cancelled"),
                     "false")
    ELSE progress_hook(r, d)

\* One call of the hook by the transfer, lines 222-250 and 336-351.  With the
\* flag set the hook raises "Download cancelled" before it looks at d (lines
\* 223-224, 337-338); the exception unwinds ydl.download into the except
\* branch of the operation, which returns False.
hook_call(r, d, flag) ==
    IF flag
    THEN end_attempt(download_file_except(r, "cancelled"), "false")
    ELSE progress_hook(r, d)

OpBegin(t) ==
    /\ t \in DOMAIN th
    /\ th[t].pc = "op"
    /\ th[t].events = <<>>
    /\ SetThread(t, download_file_start(th[t]))
    /\ UNCHANGED <<cancel_requested, qvars, hvars, avars>>

\* The transfer calls the hook with d.
Hook(t, d) ==
    /\ t \in DOMAIN th
    /\ th[t].pc = "op"
    /\ th[t].events # <<>>
    /\ cancel_requested \/ Len(th[t].events) <= MaxHooks
    /\ SetThread(t, [hook_call(th[t], d, cancel_requested) EXCEPT
                       !.nFinished = IF d.status = "finished" /\ ~cancel_requested
                                     THEN @ + 1 ELSE @,
                       !.hookAt = Len(th[t].events),
                       !.hookSignal = d,
                       !.hookFlag = cancel_requested])
    /\ UNCHANGED <<cancel_requested, qvars, hvars, avars>>

\* ydl.download returns; a destination that could not be written stays so for
\* the rest of the retry run.
OpSucceed(t) ==
    /\ t \in DOMAIN th
    /\ th[t].pc = "op"
    /\ th[t].events # <<>>
    /\ ~th[t].config_error
    /\ SetThread(t, [end_attempt(download_file_return(th[t]), "true") EXCEPT
                       !.hookAt = 0, !.hookSignal = NoSignal])
    /\ UNCHANGED <<cancel_requested, qvars, hvars, avars>>

\* ydl.download raises an exception of kind k.
OpFail(t, k) ==
    /\ t \in DOMAIN th
    /\ th[t].pc = "op"
    /\ th[t].events # <<>>
    /\ SetThread(t, [end_attempt(download_file_except(th[t], k), "false") EXCEPT
                       !.hookAt = 0, !.hookSignal = NoSignal])
    /\ UNCHANGED <<cancel_requested, qvars, hvars, avars>>

\* download_video with the title known, any options and any flag left by an
\* earlier call.
ProgressInit ==
    /\ InitQueue
    /\ IdleApp
    /\ cancel_requested \in BOOLEAN
    /\ \E dv, da \in BOOLEAN : th = <<NewThread(dv, da, TRUE)>>

ProgressNext ==
    \/ Enter(1)
    \/ AudioGate(1)
    \/ VideoGate(1)
    \/ RetryCheck(1)
    \/ OpBegin(1)
    \/ \E d \in RawSignals : Hook(1, d)
    \/ OpSucceed(1)
    \/ \E k \in ErrorKinds : OpFail(1, k)
    \/ RetryReturn(1)
    \/ CancelDownload

ProgressSpec == ProgressInit /\ [][ProgressNext]_vars

\* --------------------------------------------- YouTubeDownloaderApp
\* The URL of the i-th link the clipboard monitor reports (processed_urls lets
\* each URL through once).
AppUrl(i) == <<"a", "b", "c", "d">>[i]

\* config.download_video / config.download_mp3: the tray menu keeps at least
\* one of them on.
AppOptions == {<<TRUE, TRUE>>, <<FALSE, TRUE>>}

\* States in which a worker thread is inside a call that can last longer than
\* the 3 s of QThread.wait(3000): the metadata request, the transfer, the
\* backoff sleep.
Blocking == {"info", "op", "sleep"}

\* _on_queue_next / _start_download for the on_next calls in cb: a new
\* download window, and a new DownloadWorker (created without video_info,
\* lines 592-599) that is started.  Without an on_next call the window becomes
\* win.  thBase is th as the handler has left it so far.
StartDownloads(cb, thBase, win) ==
    IF NextItems(cb) # <<>>
    THEN LET item == NextItems(cb)[1]
         IN /\ th' = Append(thBase, NewThread(item.download_video, item.download_audio, FALSE))
            /\ download_worker' = Len(thBase) + 1
            /\ window' = "active"
    ELSE /\ th' = thBase
         /\ window' = win
         /\ UNCHANGED download_worker

\* _on_video_info_ready: queue the item with the options of the moment.
OnVideoInfoReady(dv, da) ==
    /\ mainpc = "idle"
    /\ Len(added) < MaxItems
    /\ LET item == QueueItem(Len(added) + 1, AppUrl(Len(added) + 1), dv, da)
           r == add(QState, item)
       IN /\ StoreQueue(r.q)
          /\ added' = Append(added, item)
          /\ Observe("add", item.url, r.ret, r.cb, FALSE)
          /\ StartDownloads(r.cb, th, window)
    /\ UNCHANGED <<on_next_callback, on_queue_empty_callback, pruned, removedIds, clearedIds, onlyStub,
                   cancel_requested, mainpc, signals>>

\* The user cancels in the download window: download_cancelled runs
\* _on_download_cancelled, lines 609-611: worker.cancel(), then the main thread
\* blocks in worker.wait(3000).
UserCancel ==
    /\ mainpc = "idle"
    /\ window = "active"
    /\ download_worker # 0
    /\ cancel_requested' = TRUE
    /\ th' = [t \in DOMAIN th |->
                IF t = download_worker /\ (InCall(th[t]) \/ th[t].pc = "start")
                THEN SeeCancel([NoteCancel(th[t]) EXCEPT !.cancelReq = TRUE])
                ELSE SeeCancel(th[t])]
    /\ mainpc' = "cancel_wait"
    /\ UNCHANGED <<qvars, hvars, download_worker, window, signals>>

\* wait(3000) returns, because the worker thread has finished or because 3 s
\* have passed; lines 613-621: cancel_current.  The cancelled window closes
\* (reject) when the handler returns.
CancelEnd ==
    /\ mainpc = "cancel_wait"
    /\ th[download_worker].pc \in Blocking \cup {"finished"}
    /\ LET r == cancel_current(QState)
       IN /\ StoreQueue(r.q)
          /\ Observe("cancel_current", "", 0, r.cb, TRUE)
          /\ StartDownloads(r.cb, th, "closed")
    /\ mainpc' = "idle"
    /\ UNCHANGED <<on_next_callback, on_queue_empty_callback, added, pruned, removedIds, clearedIds, onlyStub,
                   cancel_requested, signals>>

\* _on_download_complete for the oldest queued download_complete signal: the
\* current window is marked completed, then complete_current.
OnDownloadComplete ==
    /\ mainpc = "idle"
    /\ signals # <<>>
    /\ signals' = Tail(signals)
    /\ LET r == complete_current(QState)
       IN /\ StoreQueue(r.q)
          /\ Observe("complete_current", "", 0, r.cb, TRUE)
          /\ StartDownloads(r.cb, th, IF window = "active" THEN "completed" ELSE window)
    /\ UNCHANGED <<on_next_callback, on_queue_empty_callback, added, pruned, removedIds, clearedIds, onlyStub,
                   cancel_requested, mainpc>>

\* DownloadWorker.run, line 221: download_video has returned; emit
\* download_complete (queued to the main thread) and end the thread.  The
\* results dict only feeds the window, the history and the tray messages, so
\* the queued signal is recorded by its sender alone.
WorkerEmit(t) ==
    /\ t \in DOMAIN th
    /\ th[t].pc = "return"
    /\ signals' = Append(signals, t)
    /\ SetThread(t, [NewThread(th[t].download_video, th[t].download_audio, FALSE)
                        EXCEPT !.pc = "finished"])
    /\ UNCHANGED <<qvars, hvars, cancel_requested, download_worker, window, mainpc>>

\* What the operations give back in the application: DownloadWorker._on_progress
\* only emits a signal and the menu offers numeric qualities, so they return
\* True or False.
AppOutcomes == {"true", "false"}

\* One step of worker thread t.
WorkerStep(t) ==
    \/ Enter(t)
    \/ \E ok \in BOOLEAN : InfoReturn(t, ok)
    \/ AudioGate(t)
    \/ VideoGate(t)
    \/ RetryCheck(t)
    \/ OpTick(t, "false")
    \/ \E o \in AppOutcomes : OpEnd(t, o)
    \/ RetryReturn(t)
    \/ WorkerEmit(t)

\* After YouTubeDownloaderApp.__init__: an idle queue with both callbacks set
\* (lines 284-288), no worker, no window.
AppInit ==
    /\ queue = <<>> /\ current = <<>> /\ is_downloading = FALSE
    /\ on_next_callback = TRUE /\ on_queue_empty_callback = TRUE
    /\ added = <<>> /\ dispatched = <<>> /\ lastOp = NoOp /\ cbLog = <<>>
    /\ nextsSinceVacate = 0 /\ nVacates = 0 /\ pruned = FALSE /\ dropped = FALSE
    /\ nEmpty = 0 /\ removedIds = {} /\ onlyStub = FALSE
    /\ clearedIds = {} /\ vacatedIds = {}
    /\ IdleEngine
    /\ IdleApp

AppNext ==
    \/ \E o \in AppOptions : OnVideoInfoReady(o[1], o[2])
    \/ UserCancel
    \/ CancelEnd
    \/ OnDownloadComplete
    \/ \E t \in 1..MaxItems : Enter(t)
    \/ \E t \in 1..MaxItems, ok \in BOOLEAN : InfoReturn(t, ok)
    \/ \E t \in 1..MaxItems : AudioGate(t)
    \/ \E t \in 1..MaxItems : VideoGate(t)
    \/ \E t \in 1..MaxItems : RetryCheck(t)
    \/ \E t \in 1..MaxItems : OpTick(t, "false")
    \/ \E t \in 1..MaxItems, o \in AppOutcomes : OpEnd(t, o)
    \/ \E t \in 1..MaxItems : RetryReturn(t)
    \/ \E t \in 1..MaxItems : WorkerEmit(t)

AppSpec == AppInit /\ [][AppNext]_vars

\* The event loop delivers queued signals, wait(3000) returns, and every
\* started thread keeps running.
AppFairSpec ==
    /\ AppSpec
    /\ WF_vars(OnDownloadComplete)
    /\ WF_vars(CancelEnd)
    /\ \A t \in 1..MaxItems : WF_vars(WorkerStep(t))

Init == InitQueue /\ IdleEngine /\ IdleApp

Next ==
    \/ \E n, e \in BOOLEAN : SetCallbacks(n, e)
    \/ \E u \in Urls : Add(u)
    \/ \E u \in Urls : AddCompleting(u)
    \/ CompleteCurrent
    \/ CancelCurrent
    \/ Clear
    \/ \E u \in Urls : Remove(u)

Spec == Init /\ [][Next]_vars

\* =================================================================
\* Properties
\* =================================================================
IsPrefix(s, t) == Len(s) <= Len(t) /\ SubSeq(t, 1, Len(s)) = s

\* C1 (FIFO dispatch order): under add, complete_current and cancel_current
\* alone (no remove, no clear), with on_next registered whenever an item is
\* dispatched, the items passed to on_next so far are a prefix of the items
\* passed to add, in the order of the add calls.
C1_FifoDispatch ==
    (~pruned /\ ~dropped) => IsPrefix(dispatched, added)

C1_Witness ==
    /\ ~pruned /\ ~dropped
    /\ Len(dispatched) = 3
    /\ lastOp.op = "cancel_current"

\* C2 (single-flight in the queue): on_next fires only from a call made while
\* nothing is downloading or from complete_current / cancel_current itself, and
\* never twice without a complete_current or cancel_current call in between.
C2_SingleFlight ==
    /\ [](nextsSinceVacate <= 1)
    /\ [][Len(dispatched') > Len(dispatched)
            => (~is_downloading \/ lastOp'.op \in {"complete_current", "cancel_current"})]_vars

C2_Witness ==
    /\ Len(dispatched) >= 2
    /\ Len(queue) >= 1
    /\ is_downloading
    /\ lastOp.op = "add"

\* C5 (is_downloading iff current present): the equivalence holds after every
\* queue operation and in the fields each callback sees when it is invoked.
C5_DownloadingIffCurrent ==
    /\ is_downloading <=> (current # <<>>)
    /\ \A i \in DOMAIN cbLog : cbLog[i].is_downloading <=> (cbLog[i].current # <<>>)

C5_Witness ==
    /\ lastOp.op = "complete_current"
    /\ cbLog # <<>>
    /\ cbLog[1].kind = "on_next"
    /\ queue # <<>>

\* Invocations of the operation made so far by the retry run of record r.
RunCalls(r) == Len(r.olog) + (IF r.pc = "op" THEN 1 ELSE 0)

\* C6 (retry bound), as claimed: a retry run during which the cancel flag was
\* never set returns True after exactly k invocations when the operation first
\* succeeds on attempt k, and returns False after exactly MAX_RETRIES
\* invocations when every attempt fails, whatever form the failures take.
C6_RetryBound ==
    \A t \in DOMAIN th :
        LET r == th[t]
            n == Len(r.olog)
        IN (r.pc = "retry_ret" /\ ~r.runCancel) =>
              IF \E i \in 1..n : r.olog[i] = "true"
              THEN r.ret /\ r.olog[n] = "true" /\ \A i \in 1..(n - 1) : r.olog[i] # "true"
              ELSE ~r.ret /\ n = MAX_RETRIES

\* C7 (backoff schedule), as claimed: when an attempt begins in a run without
\* cancellation, every earlier failed attempt i was followed by a wait of
\* RETRY_DELAYS[i], whether it raised or returned a falsy value; there is no
\* wait after the last attempt.
C7_BackoffSchedule ==
    \A t \in DOMAIN th :
        LET r == th[t]
        IN /\ Len(r.slept) <= MAX_RETRIES - 1
           /\ (r.pc = "op" /\ ~r.runCancel) =>
                 r.slept = SubSeq(RETRY_DELAYS, 1, Len(r.olog))

\* C8 (cancellation short-circuit), as claimed: once the flag has been set
\* before attempt 2 of a retry run began, the run invokes the operation no
\* more, starts no backoff sleep and returns False.
C8_CancelShortCircuit ==
    [][\A t \in DOMAIN th :
          (/\ th[t].pc \in {"retry_check", "op", "sleep"}
           /\ th[t].runCancel
           /\ th[t].callsAtCancel <= 1)
          => /\ RunCalls(th'[t]) = RunCalls(th[t])
             /\ th'[t].slept = th[t].slept
             /\ (th'[t].pc = "retry_ret" => ~th'[t].ret)]_vars

\* C9 (flag checked before each attempt): a round of the retry loop that finds
\* the flag set returns False without invoking the operation and without
\* sleeping; when that is the first round, the run made no invocation at all.
C9_CheckBeforeAttempt ==
    [][\A t \in DOMAIN th :
          (/\ th[t].pc = "retry_check"
           /\ th[t].attempt < MAX_RETRIES
           /\ cancel_requested
           /\ th'[t].pc # "retry_check")
          => /\ th'[t].pc = "retry_ret"
             /\ ~th'[t].ret
             /\ RunCalls(th'[t]) = RunCalls(th[t])
             /\ th'[t].slept = th[t].slept
             /\ (th[t].attempt = 0 => RunCalls(th'[t]) = 0)]_vars

C9_Witness ==
    \E t \in DOMAIN th :
        /\ t \in DOMAIN th
    /\ th[t].pc = "retry_ret"
        /\ ~th[t].ret
        /\ th[t].runCancel
        /\ cancel_requested
        /\ th[t].olog = <<"error">>
        /\ th[t].attempt = 1

\* C3 (one download at a time), as claimed: at most one DownloadWorker thread
\* is inside YouTubeDownloader.download_video at any moment.
C3_OneDownloadAtATime ==
    Cardinality({t \in DOMAIN th : InCall(th[t])}) <= 1

\* C4 (no stall): with worker threads that keep running, an event loop that
\* delivers queued signals and a wait(3000) that returns, every item passed to
\* the queue's add is eventually passed to on_next.
C4_NoStall ==
    \A i \in 1..MaxItems :
        (\E k \in DOMAIN added : added[k].id = i)
            ~> (\E k \in DOMAIN dispatched : dispatched[k].id = i)

C4_Witness ==
    /\ Len(dispatched) >= 2
    /\ lastOp.op = "cancel_current"
    /\ cbLog # <<>>
    /\ cbLog[1].kind = "on_next"
    /\ \E t \in DOMAIN th : th[t].pc = "finished"

\* C10 (cancel request while in flight), as claimed: once cancel_download has
\* been called for an item whose worker is between its start and the return of
\* download_video, the next progress tick of that worker aborts the transfer,
\* and the worker starts no further attempt and no further sub-download.
C10_CancelStopsItem ==
    [][\A t \in DOMAIN th :
          th[t].cancelReq
          => /\ ~(th[t].pc = "op" /\ th'[t].pc = "op" /\ th'[t].ticks > th[t].ticks)
             /\ ~(th[t].pc # "op" /\ th'[t].pc = "op")]_vars

\* ---------------------------------------------- download_video as a whole
\* C11 (audio before video), as claimed: in a call that requests both streams,
\* the video operation has been invoked only if the audio retry run of that
\* call has returned before.
C11_AudioBeforeVideo ==
    \A t \in DOMAIN th :
        LET r == th[t]
        IN (r.download_audio /\ r.download_video /\ "video" \in r.attempted)
              => "audio" \in r.returned

\* C12 (result independence): when a call that requests both streams, has its
\* metadata and met no cancel request returns, both operations have been
\* invoked, whatever the audio attempts gave, and each flag of the result is
\* True exactly when an attempt of its own stream returned a truthy value.
C12_ResultIndependence ==
    \A t \in DOMAIN th :
        LET r == th[t]
        IN (/\ r.pc = "return"
            /\ r.download_audio /\ r.download_video
            /\ r.info \in {"given", "fetched"}
            /\ ~r.cancelReq)
           => /\ r.attempted = Streams
              /\ r.returned = Streams
              /\ \A s \in Streams : r.results[s] = (s \in r.succeeded)

C12_Witness ==
    \E t \in DOMAIN th :
        /\ th[t].pc = "return"
        /\ th[t].download_audio /\ th[t].download_video
        /\ ~th[t].cancelReq
        /\ th[t].attempted = Streams
        /\ th[t].results = [video |-> TRUE, audio |-> FALSE]

\* C13 (cancellation abandons the rest), as claimed: in a call that requests
\* both streams and whose first cancel request came during its audio
\* sub-download, the video operation is never invoked and the video flag of
\* the result stays False.
C13_CancelAbandonsVideo ==
    \A t \in DOMAIN th :
        LET r == th[t]
        IN (r.download_audio /\ r.download_video /\ r.cancelAt = "audio")
              => /\ "video" \notin r.attempted
                 /\ ~r.results.video

\* C14 (metadata failure is fatal): a call whose get_video_info returned
\* nothing invokes no operation and returns at once with both flags False.
C14_MetadataFailureFatal ==
    \A t \in DOMAIN th :
        LET r == th[t]
        IN r.info = "failed"
              => /\ ~r.has_info
                 /\ r.pc = "return"
                 /\ r.attempted = {}
                 /\ r.returned = {}
                 /\ r.results = [video |-> FALSE, audio |-> FALSE]

C14_Witness ==
    \E t \in DOMAIN th :
        /\ th[t].pc = "return"
        /\ th[t].info = "failed"
        /\ th[t].infoCalls = 1
        /\ th[t].download_audio /\ th[t].download_video

\* C15 (never raises), as claimed: no exception leaves download_video,
\* whatever metadata the caller gives and whatever the operations and the
\* progress sink do.
C15_NeverRaises ==
    \A t \in DOMAIN th : th[t].pc # "raised"

\* ------------------------------------------------ DownloadQueue, continued
\* C16 (add returns the position), as claimed: with the callbacks registered,
\* add returns 0 exactly when the call itself passed the item to on_next, and
\* so a value above 0 for an item left waiting behind the in-flight download.
C16_AddReturnsPosition ==
    (lastOp.op = "add" /\ ~dropped)
       => ((lastOp.ret = 0) <=> (NextItems(cbLog) = <<added[Len(added)]>>))

\* A step of the remove method (set_callbacks is the only other step that keeps
\* lastOp, and it changes a callback).
RemoveStep ==
    /\ lastOp'.op = "remove"
    /\ UNCHANGED <<on_next_callback, on_queue_empty_callback>>

\* A step of the add method with a handler that does not re-enter the queue.
AddStep ==
    /\ lastOp'.op = "add"
    /\ Len(added') = Len(added) + 1

\* C17 (add while idle): an add made while is_downloading is false, with
\* on_next registered, calls on_next once, with the added item and with that
\* item already current; when add returns the item is current, is_downloading
\* is true and nothing is pending.
C17_AddWhileIdle ==
    [][(AddStep /\ ~is_downloading /\ on_next_callback)
         => LET item == added'[Len(added')]
            IN /\ Len(cbLog') = 1
               /\ cbLog'[1].kind = "on_next"
               /\ cbLog'[1].item = <<item>>
               /\ cbLog'[1].current = <<item>>
               /\ current' = <<item>>
               /\ is_downloading'
               /\ Len(queue') = 0]_vars

C17_Witness ==
    /\ lastOp.op = "add"
    /\ Len(added) = 3
    /\ NextItems(cbLog) = <<added[3]>>
    /\ current = <<added[3]>>
    /\ nVacates >= 2

\* C18 (queue drain), as claimed: after three adds, each completed by its
\* on_next handler as soon as it is dispatched, with both callbacks
\* registered throughout, on_queue_empty has been called exactly once and
\* nothing is pending.
C18_QueueDrain ==
    (onlyStub /\ ~dropped /\ Len(added) = 3)
       => (nEmpty = 1 /\ Len(queue) = 0)

\* C19 (removal): remove(url) leaves in the pending queue exactly the items
\* with another url, in their order, and no item it has deleted is ever passed
\* to on_next.
C19_Removal ==
    /\ [][RemoveStep
            => queue' = SelectSeq(queue, LAMBDA x : x.url # lastOp'.arg)]_vars
    /\ [](\A k \in DOMAIN dispatched : dispatched[k].id \notin removedIds)

\* [A, B, C] added, B removed while pending: A and C are dispatched, in order.
C19_Witness ==
    /\ Len(added) = 3
    /\ removedIds = {2}
    /\ dispatched = <<added[1], added[3]>>

\* C20 (what remove returns): remove(url) returns True exactly when a pending
\* item has that url; otherwise the pending queue is as before.  It never
\* changes current or is_downloading and calls no callback.
C20_RemoveResult ==
    [][RemoveStep
         => LET hit == \E i \in DOMAIN queue : queue[i].url = lastOp'.arg
            IN /\ (lastOp'.ret = 1) <=> hit
               /\ ~hit => queue' = queue
               /\ current' = current
               /\ is_downloading' = is_downloading
               /\ cbLog' = <<>>
               /\ dispatched' = dispatched
               /\ nEmpty' = nEmpty]_vars

\* remove(url) with url matching only the in-flight item.
C20_Witness ==
    /\ lastOp.op = "remove"
    /\ lastOp.ret = 0
    /\ current # <<>>
    /\ current[1].url = lastOp.arg
    /\ queue # <<>>
    /\ is_downloading

\* C21 (cancel_current is complete_current): in every reachable state of the
\* queue the two calls give the same fields and the same callback calls.
C21_CancelIsComplete ==
    cancel_current(QState) = complete_current(QState)

C21_Witness ==
    /\ lastOp.op = "cancel_current"
    /\ NextItems(cbLog) # <<>>
    /\ is_downloading
    /\ queue # <<>>
    /\ NextItems(cancel_current(QState).cb) = <<Head(queue)>>

\* Ids of the added items that have not been completed, cancelled, removed or
\* cleared.
LiveIds == (1..Len(added)) \ (vacatedIds \cup removedIds \cup clearedIds)

\* C22 (is_in_queue): is_in_queue(url) is true exactly when an item with that
\* url has been added and not yet completed, cancelled, removed or cleared,
\* that is, when the url is that of the current item or of a pending one.
C22_IsInQueue ==
    \A u \in Urls :
        /\ is_in_queue(QState, u) <=> (\E i \in LiveIds : added[i].url = u)
        /\ is_in_queue(QState, u) <=>
              \/ (current # <<>> /\ current[1].url = u)
              \/ (\E i \in DOMAIN queue : queue[i].url = u)

\* A url in the queue through the current item alone, and another one that
\* was in the queue and is not any more.
C22_Witness ==
    \E u, v \in Urls :
        /\ is_in_queue(QState, u)
        /\ \A i \in DOMAIN queue : queue[i].url # u
        /\ ~is_in_queue(QState, v)
        /\ \E i \in vacatedIds : added[i].url = v
        /\ \E i \in removedIds : added[i].url = v

\* C23 (counts): total_count is pending_count plus one for a current item,
\* pending_count is the length of get_pending(), and total_count counts the
\* added items not yet completed, cancelled, removed or cleared.
C23_Counts ==
    /\ total_count(QState) = pending_count(QState) + (IF current # <<>> THEN 1 ELSE 0)
    /\ pending_count(QState) = Len(get_pending(QState))
    /\ get_pending(QState) = queue
    /\ total_count(QState) = Cardinality(LiveIds)

C23_Witness ==
    /\ current # <<>>
    /\ pending_count(QState) = 2
    /\ total_count(QState) = 3

\* The ids of the items of a sequence.
Ids(seq) == {seq[k].id : k \in DOMAIN seq}

\* C24 (nothing lost or duplicated): the pending queue never holds the current
\* item or an item twice; every added item is in exactly one of pending,
\* current, vacated, removed or cleared; an item is removed or cleared only
\* before its dispatch, and on_next is called at most once per item.
C24_NoLossNoDuplicate ==
    LET pending == Ids(queue)
        cur == Ids(current)
        gone == removedIds \cup clearedIds
    IN /\ Cardinality(pending) = Len(queue)
       /\ Len(current) <= 1
       /\ pending \cup cur \cup vacatedIds \cup gone = 1..Len(added)
       /\ pending \cap cur = {}
       /\ pending \cap vacatedIds = {}
       /\ pending \cap gone = {}
       /\ cur \cap vacatedIds = {}
       /\ cur \cap gone = {}
       /\ vacatedIds \cap gone = {}
       /\ Cardinality(Ids(dispatched)) = Len(dispatched)
       /\ Ids(dispatched) \cap gone = {}
       /\ ~dropped => Ids(dispatched) = cur \cup vacatedIds

C24_Witness ==
    /\ Len(added) = 3
    /\ vacatedIds # {}
    /\ removedIds # {}
    /\ clearedIds # {}
    /\ queue = <<>>
    /\ current = <<>>

\* ------------------------------------------------- file names
\* The call of record r has computed safe_title.
Sanitized(r) == r.info \in {"given", "fetched"} /\ r.pc # "raised"

\* C25 (_sanitize_filename): safe_title is the title without the characters
\* < > : " / \ | ? *, cut to its first 200 characters and then stripped of
\* leading and trailing whitespace; it holds none of those characters and at
\* most 200 characters, and it is the name every audio and video operation of
\* the call is given.
C25_SanitizeFilename ==
    \A t \in DOMAIN th :
        LET r == th[t]
            bad == {invalid_chars[k] : k \in DOMAIN invalid_chars}
            kept == SelectSeq(r.title, LAMBDA c : c \notin bad)
            n == IF Len(kept) < 200 THEN Len(kept) ELSE 200
            solid == {i \in 1..n : kept[i] \notin Whitespace}
            lo == CHOOSE i \in solid : \A j \in solid : i <= j
            hi == CHOOSE i \in solid : \A j \in solid : j <= i
            expected == IF solid = {} THEN <<>>
                        ELSE [k \in 1..(hi - lo + 1) |-> kept[lo + k - 1]]
        IN Sanitized(r)
              => /\ r.safe_title = expected
                 /\ Len(r.safe_title) <= 200
                 /\ \A i \in DOMAIN r.safe_title : r.safe_title[i] \notin bad
                 /\ \A s \in r.attempted : r.passed[s] = r.safe_title

\* A title whose 200th kept character is whitespace and that holds invalid
\* characters, sanitized and passed to both operations.
C25_Witness ==
    \E t \in DOMAIN th :
        /\ Sanitized(th[t])
        /\ th[t].attempted = Streams
        /\ th[t].title = Rep(":", 1) \o Rep("a", 199) \o Rep(" ", 201)
        /\ th[t].safe_title = Rep("a", 199)
        /\ th[t].passed.video = th[t].safe_title

\* C26 (sanitization example), amended: the title My: Video/Clip*?"<>|
\* sanitizes to My VideoClip, and a title of 250 ordinary characters to its
\* first 200.
C26_SanitizeExampleAmended ==
    \A t \in DOMAIN th :
        Sanitized(th[t])
           => /\ th[t].title = ExampleTitle
                   => th[t].safe_title =
                        <<"M", "y", " ", "V", "i", "d", "e", "o", "C", "l", "i", "p">>
              /\ th[t].title = LongTitle => th[t].safe_title = Rep("a", 200)

C26_Witness ==
    \E t, u \in DOMAIN th :
        /\ Sanitized(th[t])
        /\ th[t].title = ExampleTitle
        /\ th[t].pc = "op"
        /\ th[t].passed.audio =
              <<"M", "y", " ", "V", "i", "d", "e", "o", "C", "l", "i", "p">>

\* C26 as claimed: the example title sanitizes to My Video Clip, and a title
\* of 250 characters to 200.
C26_SanitizeExample ==
    \A t \in DOMAIN th :
        Sanitized(th[t])
           => /\ th[t].title = ExampleTitle
                   => th[t].safe_title =
                        <<"M", "y", " ", "V", "i", "d", "e", "o", " ", "C", "l", "i", "p">>
              /\ th[t].title = LongTitle => Len(th[t].safe_title) = 200

\* The events of the attempt of r up to and including its first terminal
\* event (100, complete), all of them when there is none.
UntilTerminal(r) ==
    LET ends == {i \in DOMAIN r.events : r.events[i] = Event(100, "complete")}
    IN IF ends = {} THEN r.events
       ELSE SubSeq(r.events, 1, CHOOSE i \in ends : \A j \in ends : i <= j)

\* C27: within one attempt of a stream the percent values delivered to the
\* progress sink never decrease up to the terminal event, whatever raw
\* progress ticks arrive and however the attempt ends.
C27_ProgressMonotone ==
    \A t \in DOMAIN th :
        LET ev == UntilTerminal(th[t])
        IN \A i, j \in DOMAIN ev : i <= j => ev[i].percent <= ev[j].percent

\* An attempt of r has ended and its events are still at hand.
AttemptEnded(r) == r.pc \in {"retry_check", "retry_ret"} /\ r.olog # <<>>

\* C28: every 'finished' signal the hook handles emits (100, complete) on the
\* video stream and (95, converting) on the audio stream, and nothing else
\* emits these events; an audio attempt has a (100, complete) event exactly
\* when it has succeeded, and that event is then its last one, after every
\* 95 event.
C28_TerminalEvents ==
    \A t \in DOMAIN th :
        LET r == th[t]
            n == Len(r.events)
            done == {i \in 1..n : r.events[i] = Event(100, "complete")}
            conv == {i \in 1..n : r.events[i] = Event(95, "converting")}
        IN /\ r.stream = "video" =>
                Cardinality(done) = r.nFinished /\ conv = {}
           /\ r.stream = "audio" =>
                /\ Cardinality(conv) = r.nFinished
                /\ done # {} <=>
                      (AttemptEnded(r) /\ r.olog[Len(r.olog)] = "true")
                /\ done \subseteq {n}
                /\ \A i \in conv, j \in done : i < j

\* An audio attempt that handled a 'finished' signal has succeeded after an
\* earlier attempt of the run failed.
C28_Witness ==
    \E t \in DOMAIN th :
        /\ th[t].stream = "audio"
        /\ AttemptEnded(th[t])
        /\ th[t].nFinished > 0
        /\ th[t].olog[Len(th[t].olog)] = "true"
        /\ Len(th[t].olog) > 1

\* C29: a configuration error of a sub-download is not retried: the retry run
\* returns False after invoking the operation once.
C29_ConfigErrorNotRetried ==
    \A t \in DOMAIN th :
        (th[t].pc = "retry_ret" /\ th[t].config_error) =>
            (Len(th[t].olog) = 1 /\ ~th[t].ret)

\* C30: _retry_download returns False after fewer than MAX_RETRIES
\* unsuccessful attempts only if the cancel flag is set.
C30_CancelOnlyWhenRequested ==
    \A t \in DOMAIN th :
        (th[t].pc = "retry_ret" /\ ~th[t].ret /\ Len(th[t].olog) < MAX_RETRIES)
            => cancel_requested

\* C31: a progress_hook call that reads the cancel flag set emits no progress
\* event for its tick; the attempt then ends with exactly one event more, the
\* percent-0 "cancelled" event, and returns False to _retry_download rather
\* than letting the abort exception through.
C31_AbortOnCancel ==
    \A t \in DOMAIN th :
        LET r == th[t]
        IN (r.hookFlag /\ r.hookAt > 0) =>
              /\ AttemptEnded(r)
              /\ r.olog[Len(r.olog)] = "false"
              /\ Len(r.events) = r.hookAt + 1
              /\ r.events[Len(r.events)] = Event(0, "cancelled")
              /\ Cardinality({i \in DOMAIN r.events :
                                r.events[i].status = "cancelled"}) = 1

\* A video tick that would have emitted an event was aborted after earlier
\* progress.
C31_Witness ==
    \E t \in DOMAIN th :
        /\ th[t].hookFlag
        /\ th[t].hookAt > 1
        /\ th[t].hookSignal.status = "downloading"
        /\ th[t].hookSignal.total_bytes > 0
        /\ th[t].stream = "video"

\* C32: a 'downloading' tick handled with the flag unset emits exactly one
\* event, with percent 100 * downloaded / total, when the total (or, failing
\* that, its estimate) is known, and no event at all when neither is, on
\* either stream.
C32_PercentOrGap ==
    \A t \in DOMAIN th :
        LET r == th[t]
            d == r.hookSignal
        IN (r.pc = "op" /\ r.hookAt > 0 /\ ~r.hookFlag
               /\ d.status = "downloading") =>
              LET total == IF d.total_bytes > 0 THEN d.total_bytes
                           ELSE d.total_bytes_estimate
              IN IF total > 0
                 THEN /\ Len(r.events) = r.hookAt + 1
                      /\ r.events[Len(r.events)].status = "downloading"
                      /\ r.events[Len(r.events)].percent * total
                            = 100 * d.downloaded_bytes
                 ELSE Len(r.events) = r.hookAt

\* A tick with an unknown total has come after a tick that reported progress.
C32_Witness ==
    \E t \in DOMAIN th :
        /\ th[t].pc = "op"
        /\ ~th[t].hookFlag
        /\ th[t].hookAt > 1
        /\ th[t].hookSignal.status = "downloading"
        /\ th[t].hookSignal.total_bytes = 0
        /\ th[t].hookSignal.total_bytes_estimate = 0
        /\ th[t].hookSignal.downloaded_bytes > 0
        /\ th[t].events[th[t].hookAt].percent > 0

\* C33: an item the application has queued carries its metadata, so no worker
\* is ever in get_video_info or has called it.
C33_NoRefetch ==
    \A t \in DOMAIN th : th[t].infoCalls = 0 /\ th[t].pc # "info"

\* What an alternative of the format string asks for, in the words of the
\* cascade: hvc1 and hev1 are the two tags of HEVC, mp4a is AAC.
Label(e) ==
    LET v == CASE e.vcodec = "av01" -> "AV1"
               [] e.vcodec = "vp9" -> "VP9"
               [] e.vcodec \in {"hvc1", "hev1"} -> "HEVC"
               [] e.vcodec = "avc" -> "AVC"
               [] OTHER -> "any"
        a == CASE e.acodec = "opus" -> "Opus"
               [] e.acodec = "mp4a" -> "AAC"
               [] OTHER -> "any"
    IN IF e.video = "best" THEN <<"best">>
       ELSE IF a = "any" THEN <<v>> ELSE <<v, a>>

\* The labels of the alternatives of f, a label repeated by neighbours once.
Cascade(f) ==
    LET keep == {i \in DOMAIN f : i = 1 \/ Label(f[i]) # Label(f[i - 1])}
        nth(k) == CHOOSE i \in keep : Cardinality({j \in keep : j <= i}) = k
    IN [k \in 1..Cardinality(keep) |-> Label(f[nth(k)])]

C35_AdvanceForOwnItem ==
    [][(signals # <<>> /\ signals' = Tail(signals) /\ current # <<>>)
          => current[1].id = dispatched[signals[1]].id]_vars

\* C36: complete_current or cancel_current called while no item is current
\* changes no field of the queue and fires no notification.
C36_IdleAdvanceIsNoOp ==
    [][(current = <<>> /\ lastOp'.op \in {"complete_current", "cancel_current"}
           /\ nVacates' = nVacates + 1)
          => /\ cbLog' = <<>>
             /\ queue' = queue /\ current' = current
             /\ is_downloading' = is_downloading]_vars

\* C37: whenever the queue is not downloading nothing is pending, after every
\* operation and at every callback an operation makes.
C37_NoWaitingWhileIdle ==
    /\ ~is_downloading => queue = <<>>
    /\ \A i \in DOMAIN cbLog : ~cbLog[i].is_downloading => cbLog[i].queue = <<>>

\* The queue has gone idle through an on_queue_empty call after items had
\* been pending.
C37_Witness ==
    /\ ~is_downloading
    /\ Len(dispatched) >= 2
    /\ lastOp.op \in {"complete_current", "cancel_current"}
    /\ EmptyCalls(cbLog) = 1

\* C39: clear empties the pending queue, leaves current and is_downloading
\* as they were and fires no callback; no cleared item is ever dispatched;
\* and the complete_current or cancel_current that follows a clear, with an
\* item in flight and on_queue_empty registered, fires on_queue_empty.
C39_Clear ==
    [][/\ lastOp'.op = "clear"
          => /\ queue' = <<>>
             /\ current' = current /\ is_downloading' = is_downloading
             /\ cbLog' = <<>>
       /\ clearedIds' \cap {dispatched'[k].id : k \in DOMAIN dispatched'} = {}
       /\ (lastOp.op = "clear" /\ current # <<>> /\ on_queue_empty_callback
             /\ lastOp'.op \in {"complete_current", "cancel_current"})
          => (EmptyCalls(cbLog') = 1 /\ NextItems(cbLog') = <<>>)]_vars

\* Every item added but the first was cleared while the first was in flight,
\* and the first has then been completed or cancelled.
C39_Witness ==
    /\ Len(added) >= 2
    /\ Cardinality(clearedIds) = Len(added) - 1
    /\ Len(dispatched) = 1
    /\ lastOp.op \in {"complete_current", "cancel_current"}
    /\ EmptyCalls(cbLog) = 1

\* The sub-downloads a call of download_video was asked for.
Requested(r) ==
    (IF r.download_audio THEN {"audio"} ELSE {})
        \cup (IF r.download_video THEN {"video"} ELSE {})

\* C38: a cancel request made before a download_video call began does not
\* reach it: a call that got its metadata and during which cancel_download
\* was not called has invoked the operation of every requested stream when it
\* returns, also when the item was dispatched by the cancellation of the one
\* before it.
C38_FlagDoesNotCarryOver ==
    \A t \in DOMAIN th :
        (th[t].pc = "return" /\ th[t].info # "failed" /\ ~th[t].sawCancel)
            => th[t].attempted = Requested(th[t])

\* The second item was dispatched by the cancellation of the first and its
\* call has returned, without a cancel request of its own, after attempting
\* what it was asked for.
C38_Witness ==
    /\ lastOp.op = "cancel_current"
    /\ Len(dispatched) = 2
    /\ current # <<>>
    /\ Len(th) = 2
    /\ th[2].pc = "return"
    /\ th[2].info = "fetched"
    /\ ~th[2].sawCancel
    /\ th[2].attempted = Requested(th[2])
    /\ th[2].attempted # {}

====
